---- MODULE Spec2Model ----
(***************************************************************************)
(* Model of main.py: random edge perturbation, vertex-refinement degree    *)
(* signatures, BFS-bounded subgraph extraction with pairwise isomorphism   *)
(* grouping, and equivalence-class bucketing.                              *)
(*                                                                         *)
(* A graph is a record [nodes, edges, directed].  An edge is a pair        *)
(* <<u, v>>; an undirected graph keeps each edge once, as <<min, max>>.    *)
(***************************************************************************)
EXTENDS Integers, Sequences, FiniteSets, TLC

VARIABLES
    pc,                     \* position of the running function
    \* perturbation(graph, percentage)
    graph, percentage, g, edge_number_deletion, deleted_edges, i,
    first_node, second_node,
    \* create_neighbor_list / create_degree_list
    rg, root_node, iteration_number, neighbors, hop,
    level, n_idx, neighbor_sets, neighbor_degree_list, prev_degree_list,
    \* subgraph_queries / create_subgraph
    sg, size, edge_list, subgraph_list, iso_equal_list, k_idx,
    \* create_buckets / create_equivalence_class
    equivalence_calc_list, total_node_number, query_type, key_idx,
    equivalence_class, can_set_size, class_idx, bucket_idx, reported

pvars == <<graph, percentage, g, edge_number_deletion, deleted_edges, i,
           first_node, second_node>>
rvars == <<rg, root_node, iteration_number, neighbors, hop,
           level, n_idx, neighbor_sets, neighbor_degree_list, prev_degree_list>>
svars == <<sg, size, edge_list, subgraph_list, iso_equal_list, k_idx>>
bvars == <<equivalence_calc_list, total_node_number, query_type, key_idx,
           equivalence_class, can_set_size, class_idx, bucket_idx, reported>>
vars == <<pc, pvars, rvars, svars, bvars>>

----------------------------------------------------------------------------
(* Bounds *)

MaxPertNodes == 3
MaxPertEdges == 2
MaxRefNodes == 3
MaxRefEdges == 4
MaxSubNodes == 4
MaxSubEdges == 4
MaxSize == 3
MaxSmallNodes == 3
MaxClassSize == 21

----------------------------------------------------------------------------
(* Graphs (networkx Graph / DiGraph as used by main.py) *)

NoNode == 0 - 1

\* an empty Python dict
EmptyDict == [x \in {} |-> 0]

Min2(a, b) == IF a <= b THEN a ELSE b

Max2(a, b) == IF a <= b THEN b ELSE a

NodeRange(n) == 0 .. (n - 1)

\* the key under which the graph stores the edge u-v
EdgeKey(gr, u, v) == IF gr.directed THEN <<u, v>> ELSE <<Min2(u, v), Max2(u, v)>>

AllPairs(n, directed) ==
    IF directed THEN NodeRange(n) \X NodeRange(n)
    ELSE {e \in NodeRange(n) \X NodeRange(n) : e[1] <= e[2]}

\* every graph on the nodes 0..n-1 with at most maxEdges edges
GraphsOn(n, directed, maxEdges) ==
    {[nodes |-> NodeRange(n), edges |-> E, directed |-> directed] :
        E \in {X \in SUBSET AllPairs(n, directed) : Cardinality(X) <= maxEdges}}

EmptyGraph == [nodes |-> {}, edges |-> {}, directed |-> FALSE]

has_edge(gr, u, v) == EdgeKey(gr, u, v) \in gr.edges

add_edge(gr, u, v) ==
    [gr EXCEPT !.nodes = @ \cup {u, v}, !.edges = @ \cup {EdgeKey(gr, u, v)}]

remove_edge(gr, e) == [gr EXCEPT !.edges = @ \ {e}]

number_of_edges(gr) == Cardinality(gr.edges)

\* g[n]: successors of n (neighbours, for an undirected graph)
Adj(gr, n) ==
    IF gr.directed THEN {v \in gr.nodes : <<n, v>> \in gr.edges}
    ELSE {v \in gr.nodes : <<Min2(n, v), Max2(n, v)>> \in gr.edges}

\* variant: counts only the edges leaving n
degree_out_only(gr, n) == Cardinality({e \in gr.edges : e[1] = n})

\* g.degree(n): in-degree + out-degree for a DiGraph; a self-loop counts twice
degree(gr, n) ==
    Cardinality({e \in gr.edges : e[1] = n}) + Cardinality({e \in gr.edges : e[2] = n})

----------------------------------------------------------------------------
(* perturbation(graph, percentage) *)

\* percentages are num/den pairs exactly representable as floats
Percentages == {<<0, 1>>, <<1, 4>>, <<1, 2>>, <<1, 1>>}

\* int(len(g.edges()) * percentage)
IntOfProduct(m, p) == (m * p[1]) \div p[2]

\* Python: True/False == (u, v) is always False
PyBoolEqualsTuple(b, t) == FALSE

\* `g.has_edge(first_node, second_node) in deleted_edges`
HasEdgeInDeleted(gr, u, v, deleted) ==
    LET b == has_edge(gr, u, v)
    IN \E j \in DOMAIN deleted : PyBoolEqualsTuple(b, deleted[j])

\* the `if` of the re-addition loop: TRUE means `continue`
RejectPair(gr, u, v, deleted) ==
    (v = u) \/ HasEdgeInDeleted(gr, u, v, deleted)

IdleR ==
    /\ rg = EmptyGraph /\ root_node = NoNode /\ iteration_number = 0
    /\ neighbors = {} /\ hop = 0 /\ level = 0 /\ n_idx = 0
    /\ neighbor_sets = EmptyDict
    /\ neighbor_degree_list = EmptyDict /\ prev_degree_list = EmptyDict

IdleS ==
    /\ sg = EmptyGraph /\ size = 0 /\ edge_list = EmptyDict
    /\ subgraph_list = EmptyDict /\ iso_equal_list = EmptyDict /\ k_idx = 0

IdleB ==
    /\ equivalence_calc_list = EmptyDict /\ total_node_number = 0
    /\ query_type = "none" /\ key_idx = 0 /\ equivalence_class = <<>>
    /\ can_set_size = EmptyDict /\ class_idx = 0 /\ bucket_idx = 0 /\ reported = <<>>

IdleP ==
    /\ graph = EmptyGraph /\ percentage = <<0, 1>> /\ g = EmptyGraph
    /\ edge_number_deletion = 0 /\ deleted_edges = <<>> /\ i = 0
    /\ first_node = NoNode /\ second_node = NoNode

PerturbInputs ==
    UNION {GraphsOn(n, d, MaxPertEdges) : n \in 0 .. MaxPertNodes, d \in BOOLEAN}

InitPerturb ==
    /\ pc = "delete"
    /\ graph \in PerturbInputs
    /\ percentage \in Percentages
    /\ g = graph
    /\ edge_number_deletion = IntOfProduct(number_of_edges(graph), percentage)
    /\ deleted_edges = <<>>
    /\ i = 0
    /\ first_node = NoNode /\ second_node = NoNode
    /\ IdleR /\ IdleS /\ IdleB

\* one pass of `for i in range(edge_number_deletion)`
DeleteEdge ==
    /\ pc = "delete"
    /\ i < edge_number_deletion
    /\ \E random_edge \in g.edges :
         /\ g' = remove_edge(g, random_edge)
         /\ deleted_edges' = Append(deleted_edges, random_edge)
    /\ i' = i + 1
    /\ UNCHANGED <<pc, graph, percentage, edge_number_deletion, first_node, second_node>>
    /\ UNCHANGED <<rvars, svars, bvars>>

DeleteDone ==
    /\ pc = "delete"
    /\ i = edge_number_deletion
    /\ pc' = "readd"
    /\ UNCHANGED <<pvars, rvars, svars, bvars>>

\* one pass of the while loop that takes the `continue` branch
ReAddSkip ==
    /\ pc = "readd"
    /\ edge_number_deletion > 0
    /\ \E u \in g.nodes, v \in g.nodes :
         /\ RejectPair(g, u, v, deleted_edges)
         /\ first_node' = u
         /\ second_node' = v
    /\ UNCHANGED <<pc, graph, percentage, g, edge_number_deletion, deleted_edges, i>>
    /\ UNCHANGED <<rvars, svars, bvars>>

\* one pass of the while loop that takes the `else` branch
ReAddAccept ==
    /\ pc = "readd"
    /\ edge_number_deletion > 0
    /\ \E u \in g.nodes, v \in g.nodes :
         /\ ~RejectPair(g, u, v, deleted_edges)
         /\ first_node' = u
         /\ second_node' = v
         /\ g' = add_edge(g, u, v)
    /\ edge_number_deletion' = edge_number_deletion - 1
    /\ UNCHANGED <<pc, graph, percentage, deleted_edges, i>>
    /\ UNCHANGED <<rvars, svars, bvars>>

ReturnPerturbed ==
    /\ pc = "readd"
    /\ edge_number_deletion = 0
    /\ pc' = "done"
    /\ UNCHANGED <<pvars, rvars, svars, bvars>>

NextPerturb == DeleteEdge \/ DeleteDone \/ ReAddSkip \/ ReAddAccept \/ ReturnPerturbed

SpecPerturb == InitPerturb /\ [][NextPerturb]_vars

\* the random choices are fair: a pair that can be accepted is eventually drawn
FairPerturb ==
    /\ SpecPerturb
    /\ WF_vars(DeleteEdge) /\ WF_vars(DeleteDone) /\ WF_vars(ReturnPerturbed)
    /\ SF_vars(ReAddAccept)

\* a pair the re-addition phase may legitimately add: distinct and not adjacent
ValidPairs(gr) ==
    {e \in gr.nodes \X gr.nodes : e[1] # e[2] /\ ~has_edge(gr, e[1], e[2])}

\* C1: when perturbation returns, the returned graph has as many edges as the input graph
C1_EdgeCountPreserved ==
    pc = "done" => number_of_edges(g) = number_of_edges(graph)

\* C2: whenever edges remain to be added and no valid node pair exists, the run ends in a PerturbationInfeasible failure
C2_InfeasibleFails ==
    (pc = "readd" /\ edge_number_deletion > 0 /\ ValidPairs(g) = {}) ~> (pc = "infeasible")

----------------------------------------------------------------------------
(* create_neighbor_list(g, root_node, iteration_number) and               *)
(* create_degree_list(g, i), driven for i = 0..MaxLevel as main does       *)

\* main: `for i in range(0, 4)`
MaxLevel == 3

\* variant: keeps the nodes already met (cumulative union)
Expand_cumulative(gr, frontier) ==
    frontier \cup UNION {Adj(gr, neighbor) : neighbor \in frontier}

\* one pass of `for i in range(iteration_number)` in create_neighbor_list
Expand(gr, frontier) == UNION {Adj(gr, neighbor) : neighbor \in frontier}

\* sorted([g.degree(n) for n in v])
RECURSIVE SortedDegrees(_, _)
SortedDegrees(gr, v) ==
    IF v = {} THEN <<>>
    ELSE LET m == CHOOSE x \in v : \A y \in v : degree(gr, x) <= degree(gr, y)
         IN <<degree(gr, m)>> \o SortedDegrees(gr, v \ {m})

\* dict[key] = value for the next node of the iteration order
DictPut(d, key, value) ==
    [x \in (DOMAIN d) \cup {key} |-> IF x = key THEN value ELSE d[x]]

RefineInputs ==
    UNION {GraphsOn(n, d, MaxRefEdges) : n \in 0 .. MaxRefNodes, d \in BOOLEAN}

InitRefine ==
    /\ pc = "neighbors"
    /\ rg \in RefineInputs
    /\ level = 0
    /\ n_idx = 0
    /\ neighbor_sets = EmptyDict
    /\ root_node = NoNode /\ iteration_number = 0 /\ neighbors = {} /\ hop = 0
    /\ neighbor_degree_list = EmptyDict /\ prev_degree_list = EmptyDict
    /\ IdleP /\ IdleS /\ IdleB

\* create_degree_list calls create_neighbor_list(g, n, i - 1) for the next node n
EnterNeighborList ==
    /\ pc = "neighbors"
    /\ n_idx \in rg.nodes
    /\ root_node' = n_idx
    /\ iteration_number' = level - 1
    /\ neighbors' = {n_idx}
    /\ hop' = 0
    /\ pc' = "hop"
    /\ UNCHANGED <<rg, level, n_idx, neighbor_sets, neighbor_degree_list, prev_degree_list>>
    /\ UNCHANGED <<pvars, svars, bvars>>

HopStep ==
    /\ pc = "hop"
    /\ hop < iteration_number
    /\ neighbors' = Expand(rg, neighbors)
    /\ hop' = hop + 1
    /\ UNCHANGED <<pc, rg, root_node, iteration_number, level, n_idx, neighbor_sets,
                   neighbor_degree_list, prev_degree_list>>
    /\ UNCHANGED <<pvars, svars, bvars>>

ReturnNeighborList ==
    /\ pc = "hop"
    /\ hop >= iteration_number
    /\ neighbor_sets' = DictPut(neighbor_sets, root_node, neighbors)
    /\ n_idx' = n_idx + 1
    /\ pc' = "neighbors"
    /\ UNCHANGED <<rg, root_node, iteration_number, neighbors, hop, level,
                   neighbor_degree_list, prev_degree_list>>
    /\ UNCHANGED <<pvars, svars, bvars>>

\* the `for k, v in neighbors.items()` loop and the return of create_degree_list
BuildDegreeList ==
    /\ pc = "neighbors"
    /\ n_idx \notin rg.nodes
    /\ neighbor_degree_list' =
         [k \in DOMAIN neighbor_sets |->
            IF level = 0 THEN <<1>> ELSE SortedDegrees(rg, neighbor_sets[k])]
    /\ pc' = "returned"
    /\ UNCHANGED <<rg, root_node, iteration_number, neighbors, hop, level, n_idx,
                   neighbor_sets, prev_degree_list>>
    /\ UNCHANGED <<pvars, svars, bvars>>

\* main moves on to the next refinement level
NextLevel ==
    /\ pc = "returned"
    /\ level < MaxLevel
    /\ level' = level + 1
    /\ prev_degree_list' = neighbor_degree_list
    /\ n_idx' = 0
    /\ neighbor_sets' = EmptyDict
    /\ pc' = "neighbors"
    /\ UNCHANGED <<rg, root_node, iteration_number, neighbors, hop, neighbor_degree_list>>
    /\ UNCHANGED <<pvars, svars, bvars>>

NextRefine ==
    EnterNeighborList \/ HopStep \/ ReturnNeighborList \/ BuildDegreeList \/ NextLevel

SpecRefine == InitRefine /\ [][NextRefine]_vars

\* u -> v is an outgoing edge of u (either direction for an undirected graph)
Step(gr, u, v) ==
    IF gr.directed THEN <<u, v>> \in gr.edges
    ELSE <<u, v>> \in gr.edges \/ <<v, u>> \in gr.edges

\* the nodes that end a walk of exactly k outgoing edges starting at r
WalkEnds(gr, r, k) ==
    {n \in gr.nodes :
        \E w \in [0 .. k -> gr.nodes] :
            /\ w[0] = r
            /\ w[k] = n
            /\ \A j \in 0 .. (k - 1) : Step(gr, w[j], w[j + 1])}

OutDegree(gr, n) == Cardinality({v \in gr.nodes : Step(gr, n, v)})

\* edge ends at n: in-degree plus out-degree, a self-loop counted twice
TotalDegree(gr, n) ==
    Cardinality({e \in gr.edges : n = e[1]}) + Cardinality({e \in gr.edges : n = e[2]})

IsAscending(s) == \A a \in DOMAIN s, b \in DOMAIN s : a < b => s[a] <= s[b]

\* s lists, once per node of S, the out-degrees of the nodes of S
ListsOutDegrees(s, gr, S) ==
    /\ Len(s) = Cardinality(S)
    /\ \A d \in 0 .. (2 * Cardinality(gr.nodes)) :
         Cardinality({j \in DOMAIN s : s[j] = d})
           = Cardinality({x \in S : OutDegree(gr, x) = d})

\* s lists, once per node of S, the total degrees of the nodes of S
ListsTotalDegrees(s, gr, S) ==
    /\ Len(s) = Cardinality(S)
    /\ \A d \in 0 .. (2 * Cardinality(gr.nodes)) :
         Cardinality({j \in DOMAIN s : s[j] = d})
           = Cardinality({x \in S : TotalDegree(gr, x) = d})

\* C3: at level i >= 1 every node's signature is the ascending-sorted sequence of the out-degrees of its exact (i-1)-hop outgoing frontier
C3_SortedOutDegrees ==
    (pc = "returned" /\ level >= 1) =>
        \A n \in rg.nodes :
            /\ IsAscending(neighbor_degree_list[n])
            /\ ListsOutDegrees(neighbor_degree_list[n], rg, WalkEnds(rg, n, level - 1))

\* C3 (amended): at level i >= 1 every node's signature is the ascending-sorted sequence of the degrees g.degree (in-degree plus out-degree, a self-loop counted twice) of its exact (i-1)-hop outgoing frontier
C3_SortedTotalDegrees ==
    (pc = "returned" /\ level >= 1) =>
        /\ DOMAIN neighbor_degree_list = rg.nodes
        /\ \A n \in rg.nodes :
            /\ IsAscending(neighbor_degree_list[n])
            /\ ListsTotalDegrees(neighbor_degree_list[n], rg, WalkEnds(rg, n, level - 1))

\* a directed graph where a frontier node's degree differs from its out-degree, signature of two or more entries
C3_Witness ==
    /\ pc = "returned" /\ level >= 2 /\ rg.directed
    /\ \E n \in rg.nodes :
         /\ Len(neighbor_degree_list[n]) >= 2
         /\ neighbor_degree_list[n][1] < neighbor_degree_list[n][2]
         /\ \E x \in WalkEnds(rg, n, level - 1) : TotalDegree(rg, x) # OutDegree(rg, x)

\* C4: two nodes with equal signatures at level i+1 (i >= 1) have equal signatures at level i
C4_MonotonicRefinement ==
    (pc = "returned" /\ level >= 2) =>
        \A a \in rg.nodes, b \in rg.nodes :
            neighbor_degree_list[a] = neighbor_degree_list[b]
                => prev_degree_list[a] = prev_degree_list[b]

\* C9: create_neighbor_list(g, r, k), k >= 0, returns exactly the nodes ending a walk of exactly k outgoing edges from r: {r} for k = 0, the exact frontier after every hop, and the empty set once the previous frontier is empty
C9_ExactFrontier ==
    (pc = "hop" /\ iteration_number >= 0) =>
        /\ neighbors = WalkEnds(rg, root_node, hop)
        /\ (hop = 0 => neighbors = {root_node})
        /\ (hop >= iteration_number => neighbors = WalkEnds(rg, root_node, iteration_number))
        /\ ((hop >= 1 /\ WalkEnds(rg, root_node, hop - 1) = {}) => neighbors = {})

\* a 2-hop result that drops a node met at hop 1 and keeps another
C9_Witness ==
    /\ pc = "hop" /\ iteration_number = 2 /\ hop = 2
    /\ neighbors # {}
    /\ WalkEnds(rg, root_node, 1) \ neighbors # {}
    /\ root_node \notin neighbors

----------------------------------------------------------------------------
(* subgraph_queries(size, edge_list) and create_subgraph, on the edge      *)
(* lists main builds with nx.bfs_edges                                     *)

\* the elements of a set of nodes in iteration (ascending) order
RECURSIVE InOrder(_)
InOrder(S) ==
    IF S = {} THEN <<>>
    ELSE LET m == CHOOSE x \in S : \A y \in S : x <= y
         IN <<m>> \o InOrder(S \ {m})

\* nx.bfs_edges: the queue holds the discovered nodes whose children are still to be scanned
RECURSIVE BfsFrom(_, _, _)
BfsFrom(gr, queue, visited) ==
    IF queue = <<>> THEN <<>>
    ELSE LET parent == Head(queue)
             Unvisited(child) == child \notin visited
             fresh == SelectSeq(InOrder(Adj(gr, parent)), Unvisited)
         IN [j \in 1 .. Len(fresh) |-> <<parent, fresh[j]>>]
              \o BfsFrom(gr, Tail(queue) \o fresh,
                         visited \cup {fresh[j] : j \in 1 .. Len(fresh)})

\* list(nx.bfs_edges(graph, n))
bfs_edges(gr, source) == BfsFrom(gr, <<source>>, {source})

\* variant: the break test is `counter > size`
RECURSIVE AddEdges_late_break(_, _, _, _)
AddEdges_late_break(gk, counter, rest, sz) ==
    IF rest = <<>> \/ counter > sz THEN gk
    ELSE AddEdges_late_break(add_edge(gk, Head(rest)[1], Head(rest)[2]),
                             counter + 1, Tail(rest), sz)

\* the `for u, v in sub_edge_list` loop of create_subgraph
RECURSIVE AddEdges(_, _, _, _)
AddEdges(gk, counter, rest, sz) ==
    IF rest = <<>> \/ counter = sz THEN gk
    ELSE AddEdges(add_edge(gk, Head(rest)[1], Head(rest)[2]), counter + 1, Tail(rest), sz)

create_subgraph(sub_edge_list, sz) == AddEdges(EmptyGraph, 0, sub_edge_list, sz)

\* nx.is_isomorphic(G1, G2): an edge-preserving bijection of the node sets exists
IsIsomorphic(G1, G2) ==
    /\ Cardinality(G1.nodes) = Cardinality(G2.nodes)
    /\ Cardinality(G1.edges) = Cardinality(G2.edges)
    /\ \E f \in [G1.nodes -> G2.nodes] :
         /\ \A u \in G1.nodes, v \in G1.nodes : u # v => f[u] # f[v]
         /\ \A u \in G1.nodes, v \in G1.nodes :
              has_edge(G1, u, v) <=> has_edge(G2, f[u], f[v])

\* variant: compares the subgraphs by their number of edges only
IsoRow_edge_count(subgraphs, k) ==
    LET Matches(l) == number_of_edges(subgraphs[k]) = number_of_edges(subgraphs[l])
    IN SelectSeq(InOrder(DOMAIN subgraphs), Matches)

\* the inner `for l, m in subgraph_list.items()` loop for the outer key k
IsoRow(subgraphs, k) ==
    LET Matches(l) == IsIsomorphic(subgraphs[k], subgraphs[l])
    IN SelectSeq(InOrder(DOMAIN subgraphs), Matches)

\* main runs the subgraph queries on the (undirected) karate club graph
SubgraphInputs ==
    UNION {GraphsOn(n, FALSE, MaxSubEdges) : n \in 0 .. MaxSubNodes}

InitSubgraph ==
    /\ pc = "extract"
    /\ sg \in SubgraphInputs
    /\ size \in 0 .. MaxSize
    /\ edge_list = [n \in sg.nodes |-> bfs_edges(sg, n)]
    /\ subgraph_list = EmptyDict
    /\ iso_equal_list = EmptyDict
    /\ k_idx = 0
    /\ IdleP /\ IdleR /\ IdleB

\* one pass of `for k, v in edge_list.items()`
ExtractSubgraph ==
    /\ pc = "extract"
    /\ k_idx \in DOMAIN edge_list
    /\ subgraph_list' = DictPut(subgraph_list, k_idx, create_subgraph(edge_list[k_idx], size))
    /\ k_idx' = k_idx + 1
    /\ UNCHANGED <<pc, sg, size, edge_list, iso_equal_list>>
    /\ UNCHANGED <<pvars, rvars, bvars>>

ExtractDone ==
    /\ pc = "extract"
    /\ k_idx \notin DOMAIN edge_list
    /\ pc' = "compare"
    /\ k_idx' = 0
    /\ UNCHANGED <<sg, size, edge_list, subgraph_list, iso_equal_list>>
    /\ UNCHANGED <<pvars, rvars, bvars>>

\* one pass of the outer `for k, v in subgraph_list.items()`
CompareRow ==
    /\ pc = "compare"
    /\ k_idx \in DOMAIN subgraph_list
    /\ iso_equal_list' = DictPut(iso_equal_list, k_idx, IsoRow(subgraph_list, k_idx))
    /\ k_idx' = k_idx + 1
    /\ UNCHANGED <<pc, sg, size, edge_list, subgraph_list>>
    /\ UNCHANGED <<pvars, rvars, bvars>>

ReturnIsoEqualList ==
    /\ pc = "compare"
    /\ k_idx \notin DOMAIN subgraph_list
    /\ pc' = "done"
    /\ UNCHANGED <<sg, size, edge_list, subgraph_list, iso_equal_list, k_idx>>
    /\ UNCHANGED <<pvars, rvars, bvars>>

NextSubgraph == ExtractSubgraph \/ ExtractDone \/ CompareRow \/ ReturnIsoEqualList

SpecSubgraph == InitSubgraph /\ [][NextSubgraph]_vars

Elements(s) == {s[j] : j \in DOMAIN s}

\* the undirected graph made of the edges s[1..n] and their end nodes
PrefixGraph(s, n) ==
    [nodes |-> UNION {{s[j][1], s[j][2]} : j \in 1 .. n},
     edges |-> {<<Min2(s[j][1], s[j][2]), Max2(s[j][1], s[j][2])>> : j \in 1 .. n},
     directed |-> FALSE]

\* G and H have the same shape: some one-to-one renaming of the nodes of G onto those of H carries the edges of G exactly onto the edges of H
SameShape(G, H) ==
    \E f \in [G.nodes -> H.nodes] :
        /\ {f[u] : u \in G.nodes} = H.nodes
        /\ Cardinality(G.nodes) = Cardinality(H.nodes)
        /\ {<<Min2(f[e[1]], f[e[2]]), Max2(f[e[1]], f[e[2]])>> : e \in G.edges} = H.edges
        /\ Cardinality(G.edges) = Cardinality(H.edges)

\* C5: subgraph_queries maps each node a to exactly the nodes b whose extracted subgraph is isomorphic to a's; a is in its own collection and membership is symmetric
C5_IsoEqualList ==
    pc = "done" =>
        /\ DOMAIN iso_equal_list = DOMAIN edge_list
        /\ \A a \in DOMAIN edge_list :
             /\ Elements(iso_equal_list[a]) =
                  {b \in DOMAIN edge_list :
                      SameShape(PrefixGraph(edge_list[b], Min2(size, Len(edge_list[b]))),
                                PrefixGraph(edge_list[a], Min2(size, Len(edge_list[a]))))}
             /\ Len(iso_equal_list[a]) = Cardinality(Elements(iso_equal_list[a]))
             /\ a \in Elements(iso_equal_list[a])
             /\ \A b \in DOMAIN edge_list :
                  b \in Elements(iso_equal_list[a]) <=> a \in Elements(iso_equal_list[b])

\* two extracted subgraphs with equally many edges but different shapes, and two distinct isomorphic ones
C5_Witness ==
    /\ pc = "done"
    /\ \E a \in DOMAIN edge_list, b \in DOMAIN edge_list, c \in DOMAIN edge_list :
         /\ a # b /\ a # c
         /\ Cardinality(subgraph_list[a].edges) = Cardinality(subgraph_list[b].edges)
         /\ b \notin Elements(iso_equal_list[a])
         /\ c \in Elements(iso_equal_list[a])
         /\ subgraph_list[c] # subgraph_list[a]

\* C10: create_subgraph builds an undirected graph from the first min(size, len) edges of the sequence and no other edge; it has at most size edges and none when size = 0
C10_FirstEdgesOnly ==
    \A k \in DOMAIN subgraph_list :
        /\ subgraph_list[k] = PrefixGraph(edge_list[k], Min2(size, Len(edge_list[k])))
        /\ Cardinality(subgraph_list[k].edges) <= size
        /\ (size = 0 => subgraph_list[k].edges = {})

\* a subgraph cut short: the sequence is longer than size and size is positive
C10_Witness ==
    \E k \in DOMAIN subgraph_list :
        /\ size > 0
        /\ Len(edge_list[k]) > size
        /\ Cardinality(subgraph_list[k].edges) = size

----------------------------------------------------------------------------
(* create_buckets(equivalence_calc_list, iteration_number,                 *)
(* total_node_number, query_type) and create_equivalence_class             *)

\* can_set_size = {"1": [], "2-4": [], "5-10": [], "11-20": [], "21-inf": []}
BucketLabels == <<"1", "2-4", "5-10", "11-20", "21-inf">>

\* variant: the "2-4" test excludes 4
BucketOf_strict(candi_set_size) ==
    IF candi_set_size = 1 THEN "1"
    ELSE IF 2 <= candi_set_size /\ candi_set_size < 4 THEN "2-4"
    ELSE IF 5 <= candi_set_size /\ candi_set_size <= 10 THEN "5-10"
    ELSE IF 11 <= candi_set_size /\ candi_set_size <= 20 THEN "11-20"
    ELSE "21-inf"

\* the if/elif chain of create_buckets
BucketOf(candi_set_size) ==
    IF candi_set_size = 1 THEN "1"
    ELSE IF 2 <= candi_set_size /\ candi_set_size <= 4 THEN "2-4"
    ELSE IF 5 <= candi_set_size /\ candi_set_size <= 10 THEN "5-10"
    ELSE IF 11 <= candi_set_size /\ candi_set_size <= 20 THEN "11-20"
    ELSE "21-inf"

\* sum(v)
RECURSIVE SeqSum(_)
SeqSum(v) == IF v = <<>> THEN 0 ELSE Head(v) + SeqSum(Tail(v))

\* variant: `equivalence_class[k] = []` runs without the `if k not in` test
AddToClass_reset(classes, k, key) ==
    IF \E j \in DOMAIN classes : classes[j].key = k
    THEN [j \in DOMAIN classes |->
            IF classes[j].key = k
            THEN [classes[j] EXCEPT !.members = <<key>>]
            ELSE classes[j]]
    ELSE Append(classes, [key |-> k, members |-> <<key>>])

\* the body of the loop of create_equivalence_class; the dict keeps its keys in insertion order
AddToClass(classes, k, key) ==
    IF \E j \in DOMAIN classes : classes[j].key = k
    THEN [j \in DOMAIN classes |->
            IF classes[j].key = k
            THEN [classes[j] EXCEPT !.members = Append(@, key)]
            ELSE classes[j]]
    ELSE Append(classes, [key |-> k, members |-> <<key>>])

\* degree signatures and membership lists used as keys
BucketKeys == {<<1>>, <<1, 2>>, <<2, 1>>}

\* every mapping of up to MaxSmallNodes nodes to the keys
SmallMappings ==
    UNION {[NodeRange(n) -> BucketKeys] : n \in 0 .. MaxSmallNodes}

\* mappings made of a run of a nodes with one key followed by b nodes with another
BlockMappings ==
    {[n \in NodeRange(a + b) |-> IF n < a THEN <<1>> ELSE <<1, 2>>] :
        a \in 0 .. MaxClassSize, b \in 0 .. MaxClassSize}

InitBuckets ==
    /\ pc = "group"
    /\ equivalence_calc_list \in SmallMappings \cup BlockMappings
    /\ total_node_number = Cardinality(DOMAIN equivalence_calc_list)
    /\ query_type \in {"vertex_refinement", "subgraph"}
    /\ key_idx = 0
    /\ equivalence_class = <<>>
    /\ can_set_size = EmptyDict
    /\ class_idx = 0
    /\ bucket_idx = 0
    /\ reported = <<>>
    /\ IdleP /\ IdleR /\ IdleS

\* one pass of `for key, v in equivalence_calc_list.items()`
GroupKey ==
    /\ pc = "group"
    /\ key_idx \in DOMAIN equivalence_calc_list
    /\ equivalence_class' = AddToClass(equivalence_class, equivalence_calc_list[key_idx], key_idx)
    /\ key_idx' = key_idx + 1
    /\ UNCHANGED <<pc, equivalence_calc_list, total_node_number, query_type,
                   can_set_size, class_idx, bucket_idx, reported>>
    /\ UNCHANGED <<pvars, rvars, svars>>

\* create_equivalence_class returns; create_buckets sets up its empty buckets
ReturnEquivalenceClass ==
    /\ pc = "group"
    /\ key_idx \notin DOMAIN equivalence_calc_list
    /\ can_set_size' = [label \in {BucketLabels[j] : j \in DOMAIN BucketLabels} |-> <<>>]
    /\ class_idx' = 1
    /\ pc' = "bucket"
    /\ UNCHANGED <<equivalence_calc_list, total_node_number, query_type, key_idx,
                   equivalence_class, bucket_idx, reported>>
    /\ UNCHANGED <<pvars, rvars, svars>>

\* one pass of `for k, v in eq_classes.items()`
BucketClass ==
    /\ pc = "bucket"
    /\ class_idx \in DOMAIN equivalence_class
    /\ LET candi_set_size == Len(equivalence_class[class_idx].members)
       IN can_set_size' =
            [can_set_size EXCEPT ![BucketOf(candi_set_size)] = Append(@, candi_set_size)]
    /\ class_idx' = class_idx + 1
    /\ UNCHANGED <<pc, equivalence_calc_list, total_node_number, query_type, key_idx,
                   equivalence_class, bucket_idx, reported>>
    /\ UNCHANGED <<pvars, rvars, svars>>

BucketsFilled ==
    /\ pc = "bucket"
    /\ class_idx \notin DOMAIN equivalence_class
    /\ bucket_idx' = 1
    /\ pc' = "report"
    /\ UNCHANGED <<equivalence_calc_list, total_node_number, query_type, key_idx,
                   equivalence_class, can_set_size, class_idx, reported>>
    /\ UNCHANGED <<pvars, rvars, svars>>

\* one pass of `for k, v in can_set_size.items()`: float(sum(v)) / float(total_node_number)
ReportBucket ==
    /\ pc = "report"
    /\ bucket_idx \in DOMAIN BucketLabels
    /\ query_type \in {"vertex_refinement", "subgraph"}
    /\ total_node_number # 0
    /\ reported' = Append(reported,
          [bucket |-> BucketLabels[bucket_idx],
           num |-> SeqSum(can_set_size[BucketLabels[bucket_idx]]),
           den |-> total_node_number])
    /\ bucket_idx' = bucket_idx + 1
    /\ UNCHANGED <<pc, equivalence_calc_list, total_node_number, query_type, key_idx,
                   equivalence_class, can_set_size, class_idx>>
    /\ UNCHANGED <<pvars, rvars, svars>>

\* the division raises ZeroDivisionError when total_node_number is 0
RaiseZeroDivision ==
    /\ pc = "report"
    /\ bucket_idx \in DOMAIN BucketLabels
    /\ query_type \in {"vertex_refinement", "subgraph"}
    /\ total_node_number = 0
    /\ pc' = "ZeroDivisionError"
    /\ UNCHANGED <<bvars, pvars, rvars, svars>>

ReturnBuckets ==
    /\ pc = "report"
    /\ bucket_idx \notin DOMAIN BucketLabels
    /\ pc' = "done"
    /\ UNCHANGED <<bvars, pvars, rvars, svars>>

NextBuckets ==
    \/ GroupKey \/ ReturnEquivalenceClass \/ BucketClass \/ BucketsFilled
    \/ ReportBucket \/ RaiseZeroDivision \/ ReturnBuckets

SpecBuckets == InitBuckets /\ [][NextBuckets]_vars

\* two keys are element-wise equal in order
SameKey(a, b) == Len(a) = Len(b) /\ \A j \in 1 .. Len(a) : a[j] = b[j]

Grouped == pc \in {"bucket", "report", "done", "ZeroDivisionError"}

Bucketed == pc \in {"report", "done", "ZeroDivisionError"}

\* the classes that hold node n
ClassesOf(n) ==
    {j \in DOMAIN equivalence_class : n \in Elements(equivalence_class[j].members)}

InRange(label, c) ==
    \/ label = "1" /\ c = 1
    \/ label = "2-4" /\ c >= 2 /\ c <= 4
    \/ label = "5-10" /\ c >= 5 /\ c <= 10
    \/ label = "11-20" /\ c >= 11 /\ c <= 20
    \/ label = "21-inf" /\ c >= 21

LabelSet == {"1", "2-4", "5-10", "11-20", "21-inf"}

\* how many entries equal to c bucket `label` holds
CountIn(label, c) ==
    Cardinality({j \in DOMAIN can_set_size[label] : can_set_size[label][j] = c})

\* what one bucket adds up to, counted size by size
BucketTotal(label) ==
    LET RECURSIVE Upto(_)
        Upto(c) == IF c = 0 THEN 0 ELSE c * CountIn(label, c) + Upto(c - 1)
    IN Upto(Cardinality(DOMAIN equivalence_calc_list))

RECURSIVE TotalOver(_)
TotalOver(labels) ==
    IF labels = {} THEN 0
    ELSE LET l == CHOOSE x \in labels : TRUE
         IN BucketTotal(l) + TotalOver(labels \ {l})

RECURSIVE NumSum(_, _)
NumSum(r, n) == IF n = 0 THEN 0 ELSE r[n].num + NumSum(r, n - 1)

\* C7: every equivalence class is recorded in exactly one of the five buckets, the one its cardinality selects, and the recorded sizes add up to the number of nodes; the reported fractions then add up to 1
C7_BucketConservation ==
    Bucketed =>
        /\ DOMAIN can_set_size = LabelSet
        /\ \A label \in LabelSet : \A j \in DOMAIN can_set_size[label] :
             InRange(label, can_set_size[label][j])
        /\ \A c \in 0 .. Cardinality(DOMAIN equivalence_calc_list) :
             /\ Cardinality({label \in LabelSet : CountIn(label, c) > 0}) <= 1
             /\ \A label \in LabelSet :
                  InRange(label, c) =>
                    CountIn(label, c) =
                      Cardinality({j \in DOMAIN equivalence_class :
                                      Len(equivalence_class[j].members) = c})
        /\ TotalOver(LabelSet) = Cardinality(DOMAIN equivalence_calc_list)
        /\ (pc = "done" /\ total_node_number = Cardinality(DOMAIN equivalence_calc_list)) =>
              /\ Len(reported) = 5
              /\ \A j \in 1 .. 5 : reported[j].den = total_node_number
              /\ NumSum(reported, 5) = total_node_number

\* a finished report with a class at the upper edge of "11-20" and one in "21-inf"
C7_Witness ==
    /\ pc = "done"
    /\ can_set_size["11-20"] = <<20>>
    /\ can_set_size["21-inf"] # <<>>
    /\ Len(reported) = 5

\* C8: with total node count 0 create_buckets does not fail with a division by zero and reports all five buckets with value 0
C8_ZeroNodesAllZero ==
    total_node_number = 0 =>
        /\ pc # "ZeroDivisionError"
        /\ (pc = "done" =>
              /\ Len(reported) = 5
              /\ \A j \in 1 .. 5 : reported[j].num = 0)

====
